---- MODULE Spec2Model ----
(***************************************************************************)
(* dream-sparer (src/main.rs): the RIFX chunk walker read_riff_file and    *)
(* the sound-header translator do_translate_sndh.                          *)
(*                                                                         *)
(* A u32 is the pair <<hi, lo>> of its two 16-bit halves, so that the      *)
(* whole 32-bit range (0xFFFFFFFF included) is available to the checker;   *)
(* a file position (u64) is [top, w]: top * 2^32 + w.  A FourCC and a raw  *)
(* 4-byte word of the file are 4-tuples of bytes in file order.            *)
(***************************************************************************)
EXTENDS Integers, Sequences, FiniteSets, TLC

\* ------------------------------------------------------------- bounds
\* The walk is followed for at most MaxChunks chunk headers.
MaxChunks == 2

\* ------------------------------------------------- 32-bit arithmetic
B8 == 16 * 16
B16 == B8 * B8

\* The u32 of a small natural number.
U32(n) == <<n \div B16, n % B16>>

U32Max == <<B16 - 1, B16 - 1>>

\* a < b on u32.
Lt32(a, b) == a[1] < b[1] \/ (a[1] = b[1] /\ a[2] < b[2])

\* a + b on u32: the wrapped sum, and whether it overflowed.
Add32(a, b) ==
    LET lo == a[2] + b[2]
        hi == a[1] + b[1] + (lo \div B16)
    IN [val |-> <<hi % B16, lo % B16>>, ovf |-> hi \div B16 > 0]

\* a * b on u32, by schoolbook multiplication of the four bytes of each.
Mul32(a, b) ==
    LET x == <<a[2] % B8, a[2] \div B8, a[1] % B8, a[1] \div B8>>
        y == <<b[2] % B8, b[2] \div B8, b[1] % B8, b[1] \div B8>>
        c0 == x[1] * y[1]
        c1 == x[1] * y[2] + x[2] * y[1]
        c2 == x[1] * y[3] + x[2] * y[2] + x[3] * y[1]
        c3 == x[1] * y[4] + x[2] * y[3] + x[3] * y[2] + x[4] * y[1]
        hi == x[2] * y[4] + x[3] * y[3] + x[4] * y[2]
                + x[3] * y[4] + x[4] * y[3] + x[4] * y[4]
        t0 == c0
        t1 == c1 + (t0 \div B8)
        t2 == c2 + (t1 \div B8)
        t3 == c3 + (t2 \div B8)
    IN [val |-> <<(t3 % B8) * B8 + (t2 % B8), (t1 % B8) * B8 + (t0 % B8)>>,
        ovf |-> (t3 \div B8) + hi > 0]

\* a / 8 and a % 8 on u32.
Div8(a) == <<a[1] \div 8, (a[1] % 8) * (B16 \div 8) + (a[2] \div 8)>>
Mod8(a) == a[2] % 8

\* u32::from_be_bytes and u32::from_le_bytes.
from_be_bytes(b) == <<b[1] * B8 + b[2], b[3] * B8 + b[4]>>
from_le_bytes(b) == <<b[4] * B8 + b[3], b[2] * B8 + b[1]>>

\* The bytes of a u32 in file order (used to lay out the input files).
to_be_bytes(v) == <<v[1] \div B8, v[1] % B8, v[2] \div B8, v[2] % B8>>
to_le_bytes(v) == <<v[2] % B8, v[2] \div B8, v[1] % B8, v[1] \div B8>>

\* ------------------------------------------------------ file positions
Pos(n) == [top |-> 0, w |-> U32(n)]

\* The cursor p moved forward by the u32 n.
Add64(p, n) ==
    LET s == Add32(p.w, n)
    IN [top |-> p.top + (IF s.ovf THEN 1 ELSE 0), w |-> s.val]

Le64(p, q) == p.top < q.top \/ (p.top = q.top /\ ~Lt32(q.w, p.w))

\* ------------------------------------------------------------ FourCCs
XFIR == <<88, 70, 73, 82>>
RIFX == <<82, 73, 70, 88>>
sndH == <<115, 110, 100, 72>>
\* Other tags found in the input files.
RIFF == <<82, 73, 70, 70>>
free == <<102, 114, 101, 101>>
MV93 == <<77, 86, 57, 51>>
NonUtf8 == <<255, 255, 255, 255>>

Reverse(b) == <<b[4], b[3], b[2], b[1]>>

\* read_fourcc's result for the 4 bytes it read.
read_fourcc(raw, byteswap) == IF byteswap THEN Reverse(raw) ELSE raw

\* Faulty variant: the file's byte order is ignored.
read_u32_big_endian(raw, le) == from_be_bytes(raw)

\* read_u32's result for the 4 bytes it read.
read_u32(raw, le) == IF le THEN from_le_bytes(raw) ELSE from_be_bytes(raw)

\* std::str::from_utf8 on a FourCC of the input files: the ASCII tags are
\* valid, a 0xFF byte is not.
IsUtf8(f) == \A i \in 1..4 : f[i] < 128

\* ------------------------------------------------- do_translate_sndh
\* The 25 u32 fields of a 100-byte sound header: read_unaligned followed
\* by u32::from_be on every field is a big-endian read on any host.
Fields(buf) == [i \in 0..24 |-> from_be_bytes(SubSeq(buf, 4 * i + 1, 4 * i + 4))]

\* The magic numbers (fields 21..24) seen in the game, and field 21 of a
\* freshly created Director 8.5 file.
GameMagic == <<<<27218, 36594>>, <<2064, 4560>>, <<45706, 5>>, <<744, 22544>>>>
DirectorMagic == <<27218, 37794>>

MagicOk(f) == <<f[21], f[22], f[23], f[24]>> = GameMagic \/ f[21] = DirectorMagic

ZerosOk(f) ==
    /\ f[0] = U32(0)
    /\ \A i \in 2..7 : f[i] = U32(0)
    /\ \A i \in 13..16 : f[i] = U32(0)

\* Faulty variant: the assertions are not evaluated.
TlAssertsSkipped(f, checks) == <<>>

\* The six expressions of tl_asserts!, in order.  Each is evaluated in turn;
\* a multiplication that overflows panics when the build checks overflow and
\* wraps when it does not.
TlAsserts(f, checks) ==
    LET byte_count1 == f[1]
        byte_count2 == f[8]
        pcm_frame_count1 == f[9]
        pcm_frame_count2 == f[10]
        pcm_frames_per_second == f[11]
        bytes_per_second == f[12]
        bit_depth == f[17]
        bytes_per_sample == f[18]
        channel_count == f[19]
        bytes_per_frame == f[20]
        m3 == Mul32(pcm_frames_per_second, bytes_per_frame)
        m6 == Mul32(bytes_per_sample, channel_count)
    IN << [expr |-> "byte_count1 == byte_count2", panics |-> FALSE,
           holds |-> byte_count1 = byte_count2],
          [expr |-> "pcm_frame_count1 == pcm_frame_count2", panics |-> FALSE,
           holds |-> pcm_frame_count1 = pcm_frame_count2],
          [expr |-> "bytes_per_second == pcm_frames_per_second * bytes_per_frame",
           panics |-> checks /\ m3.ovf,
           holds |-> bytes_per_second = m3.val],
          [expr |-> "bit_depth % 8 == 0", panics |-> FALSE,
           holds |-> Mod8(bit_depth) = 0],
          [expr |-> "bytes_per_sample >= (bit_depth / 8)", panics |-> FALSE,
           holds |-> ~Lt32(bytes_per_sample, Div8(bit_depth))],
          [expr |-> "bytes_per_frame == bytes_per_sample * channel_count",
           panics |-> checks /\ m6.ovf,
           holds |-> bytes_per_frame = m6.val] >>

\* The index of the first assertion whose evaluation panics, 0 when none does.
FirstPanic(as) ==
    IF \E i \in 1..Len(as) : as[i].panics
    THEN CHOOSE i \in 1..Len(as) :
             as[i].panics /\ \A j \in 1..(i - 1) : ~as[j].panics
    ELSE 0

\* The messages of the assertions among the first n that fail.
FailedAsserts(as, n) ==
    LET failing == SelectSeq(SubSeq(as, 1, n), LAMBDA a : ~a.holds)
    IN [i \in 1..Len(failing) |-> failing[i].expr]

\* match bit_depth { 8 => "u8", 16 => "s16be", 24 => "s24le", 32 => "s32le" };
\* "" stands for the arm that ignores the chunk.
SampleFormat(bit_depth) ==
    CASE bit_depth = U32(8) -> "u8"
      [] bit_depth = U32(16) -> "s16be"
      [] bit_depth = U32(24) -> "s24le"
      [] bit_depth = U32(32) -> "s32le"
      [] OTHER -> ""

NoArgs == <<"", U32(0), U32(0)>>

\* buffer.len() != 100
WrongSizeLength(buf) == Len(buf) # 100

\* do_translate_sndh up to the point where it writes its file: what it has
\* printed to stderr, and either the ffmpeg arguments to write ("Args"), the
\* reason the chunk is ignored, or "Panic".
do_translate_sndh(buf, checks) ==
    IF WrongSizeLength(buf)
    THEN [result |-> "WrongSize", args |-> NoArgs,
          stderr |-> <<"is not 100 bytes long; ignoring">>]
    ELSE
      LET f == Fields(buf)
          as == TlAsserts(f, checks)
          k == FirstPanic(as)
          head == (IF MagicOk(f) THEN <<>> ELSE <<"has unexpected magic numbers">>)
                    \o (IF ZerosOk(f) THEN <<>> ELSE <<"has unexpected non-zero values">>)
          failed == FailedAsserts(as, Len(as))
          warned == head \o failed \o (IF failed = <<>> THEN <<>> ELSE <<"(values)">>)
          format == SampleFormat(f[17])
      IN IF k > 0
         THEN [result |-> "Panic", args |-> NoArgs,
               stderr |-> head \o FailedAsserts(as, k - 1)]
         ELSE IF format = ""
         THEN [result |-> "UnsupportedBitDepth", args |-> NoArgs,
               stderr |-> warned \o <<"has unexpected bit-depth; ignoring">>]
         ELSE [result |-> "Args", args |-> <<format, f[19], f[11]>>,
               stderr |-> warned]

\* ------------------------------------------------------------- inputs
\* A 100-byte sound header: byte_count2, pcm_frame_count2, the rate, the bit
\* depth, bytes_per_sample, channel_count, bytes_per_frame, the magic
\* numbers and field 0 as given; byte_count1 1000, pcm_frame_count1 250,
\* bytes_per_second 88200, all others zero.
SndhBody(bc2, fc2, rate, depth, bsamp, ch, bpf, magic, zero) ==
    LET f == [i \in 0..24 |->
                CASE i = 0 -> zero
                  [] i = 1 -> U32(1000)
                  [] i = 8 -> bc2
                  [] i = 9 -> U32(250)
                  [] i = 10 -> fc2
                  [] i = 11 -> rate
                  [] i = 12 -> U32(88200)
                  [] i = 17 -> depth
                  [] i = 18 -> bsamp
                  [] i = 19 -> ch
                  [] i = 20 -> bpf
                  [] i \in 21..24 -> magic[i - 20]
                  [] OTHER -> U32(0)]
    IN [j \in 1..100 |-> to_be_bytes(f[(j - 1) \div 4])[((j - 1) % 4) + 1]]

BadMagic == <<U32(1), U32(2), U32(3), U32(4)>>
DirectorMagics == <<DirectorMagic, U32(0), U32(0), U32(0)>>

\* The sound headers the decoder is run on alone.
SndhBodies ==
    { SndhBody(bc, fc, rate, depth, bsamp, ch, bpf, magic, zero) :
        bc \in {U32(1000), U32(1001)}, fc \in {U32(250), U32(251)},
        rate \in {U32(22050), U32(B16)},
        depth \in {U32(0), U32(5), U32(8), U32(16), U32(24), U32(32), U32(40)},
        bsamp \in {U32(1), U32(2), U32(B16)},
        ch \in {U32(1), U32(2), U32(B16)},
        bpf \in {U32(4), U32(B16)},
        magic \in {GameMagic, DirectorMagics, BadMagic},
        zero \in {U32(0), U32(7)} }

\* The sound headers found in the files that are walked.
WalkBodies ==
    { SndhBody(U32(1000), U32(250), U32(22050), U32(16), U32(2), U32(2), U32(4),
               GameMagic, U32(0)),
      SndhBody(U32(1001), U32(250), U32(22050), U32(16), U32(2), U32(2), U32(4),
               GameMagic, U32(0)),
      SndhBody(U32(1000), U32(250), U32(22050), U32(5), U32(2), U32(2), U32(4),
               GameMagic, U32(0)),
      SndhBody(U32(1000), U32(250), U32(B16), U32(8), U32(2), U32(1), U32(B16),
               BadMagic, U32(0)) }

\* The first 4 bytes of the input files.
RawMagics == {XFIR, RIFX, RIFF}

\* The 4 bytes of a size field of the input files: each value of vals laid
\* out in both byte orders.
RawWords(vals) == {to_be_bytes(v) : v \in vals} \cup {to_le_bytes(v) : v \in vals}

RawFileSizes == RawWords({U32(12), U32(20), U32(24), U32(120), U32(228)})

RawChunkSizes ==
    RawWords({U32(0), U32(4), U32(99), U32(100), <<B16 - 1, B16 - 2>>, U32Max})

\* The 4 bytes of a chunk type of the input files.
RawTags == {sndH, Reverse(sndH), free, NonUtf8}

\* The lengths of the input files.
FileLens == {2, 6, 10, 12, 20, 24, 120, 228}

\* The n body bytes found in the input files: a sound header when n is 100,
\* zeros otherwise.
FileBodies(n) == IF n = 100 THEN WalkBodies ELSE {[j \in 1..n |-> 0]}

\* -------------------------------------------------------------- state
VARIABLES
    overflow_checks,  \* the build: does integer overflow panic (debug) or wrap
    quiet_fourccs, dump_fourccs, dump_indices, translate_sndh,  \* main's arguments
    flen, pos,        \* the file f: its length and its cursor
    pc, err,          \* where read_riff_file is, and the error it returned
    file_type, little_endian, file_size, file_kind, raw_file_size, raw_file_kind,
    offset, index,
    chunk_type, chunk_size, chunk_offset, chunk_index, raw_chunk_type, raw_chunk_size,
    quiet, dump, translate, seek_size, buffer,
    outcome,          \* how do_translate_sndh ended for the current chunk
    log,              \* what the current iteration has printed and done, in order
    files,            \* the files written so far: name -> contents
    walked            \* the chunks whose header has been processed, in order

args == <<overflow_checks, quiet_fourccs, dump_fourccs, dump_indices, translate_sndh>>
file == <<flen, pos>>
header == <<file_type, little_endian, file_size, file_kind, raw_file_size, raw_file_kind>>
chunk == <<chunk_type, chunk_size, chunk_offset, chunk_index, raw_chunk_type,
           raw_chunk_size, quiet, dump, translate, seek_size, buffer, outcome>>
vars == <<args, file, pc, err, header, offset, index, chunk, log, files, walked>>

NoFourCC == <<0, 0, 0, 0>>

\* The locals of one loop iteration before they are assigned.
NoChunk ==
    /\ chunk_type' = NoFourCC
    /\ chunk_size' = U32(0)
    /\ chunk_offset' = U32(0)
    /\ chunk_index' = 0
    /\ raw_chunk_type' = NoFourCC
    /\ raw_chunk_size' = NoFourCC
    /\ quiet' = FALSE
    /\ dump' = FALSE
    /\ translate' = FALSE
    /\ seek_size' = U32(0)
    /\ buffer' = <<>>
    /\ outcome' = ""

\* main up to its call of read_riff_file: the arguments are parsed, the file
\* is open at its start.
Init ==
    /\ overflow_checks \in BOOLEAN
    /\ quiet_fourccs \in {{}, {sndH}}
    /\ dump_fourccs \in {{}, {sndH}}
    /\ dump_indices \in {{}, {1}}
    /\ translate_sndh \in BOOLEAN
    /\ flen \in {Pos(n) : n \in FileLens}
    /\ pos = Pos(0)
    /\ pc = "magic"
    /\ err = ""
    /\ file_type = NoFourCC
    /\ little_endian = FALSE
    /\ file_size = U32(0)
    /\ file_kind = NoFourCC
    /\ raw_file_size = NoFourCC
    /\ raw_file_kind = NoFourCC
    /\ offset = U32(0)
    /\ index = 0
    /\ chunk_type = NoFourCC
    /\ chunk_size = U32(0)
    /\ chunk_offset = U32(0)
    /\ chunk_index = 0
    /\ raw_chunk_type = NoFourCC
    /\ raw_chunk_size = NoFourCC
    /\ quiet = FALSE
    /\ dump = FALSE
    /\ translate = FALSE
    /\ seek_size = U32(0)
    /\ buffer = <<>>
    /\ outcome = ""
    /\ log = <<>>
    /\ files = <<>>
    /\ walked = <<>>

\* ------------------------------------------------------------ the file
\* File::read_exact of n bytes succeeds when n bytes are left before the end.
CanRead(n) == Le64(Add64(pos, n), flen)

\* The cursor after a read_exact that met the end of the file.
PosAtEof == IF Le64(flen, pos) THEN pos ELSE flen

\* `?` on a failed read or write: read_riff_file returns the error.
Fail(e) ==
    /\ pc' = "err"
    /\ err' = e

\* std::fs::write(filename, contents)
Written(name, contents) ==
    [n \in DOMAIN files \cup {name} |-> IF n = name THEN contents ELSE files[n]]

\* format!("{:04}-{}.{}", chunk_index, chunk_offset, chunk_type)
DumpName(i, o, t) == [index |-> i, offset |-> o, suffix |-> <<46>> \o t]

\* format!("{:04}-{}-sndH.txt", chunk_index, chunk_offset)
SndhName(i, o) ==
    [index |-> i, offset |-> o, suffix |-> <<45>> \o sndH \o <<46, 116, 120, 116>>]

\* ------------------------------------------------------ read_riff_file
\* let file_type = read_fourcc(f, false)?; and the match on it.
ReadMagic ==
    /\ pc = "magic"
    /\ \/ /\ ~CanRead(U32(4))
          /\ Fail("io")
          /\ pos' = PosAtEof
          /\ UNCHANGED <<file_type, little_endian>>
       \/ /\ CanRead(U32(4))
          /\ \E raw \in RawMagics :
               /\ file_type' = read_fourcc(raw, FALSE)
               /\ pos' = Add64(pos, U32(4))
               /\ IF file_type' = XFIR
                  THEN little_endian' = TRUE /\ pc' = "size" /\ err' = err
                  ELSE IF file_type' = RIFX
                  THEN little_endian' = FALSE /\ pc' = "size" /\ err' = err
                  ELSE little_endian' = little_endian /\ Fail("unsupported")
    /\ UNCHANGED <<args, flen, file_size, file_kind, raw_file_size, raw_file_kind,
                   offset, index, chunk, log, files, walked>>

\* let file_size = read_u32(f, little_endian)?;
ReadFileSize ==
    /\ pc = "size"
    /\ \/ /\ ~CanRead(U32(4))
          /\ Fail("io")
          /\ pos' = PosAtEof
          /\ UNCHANGED <<file_size, raw_file_size>>
       \/ /\ CanRead(U32(4))
          /\ \E raw \in RawFileSizes :
               /\ raw_file_size' = raw
               /\ file_size' = read_u32(raw, little_endian)
          /\ pos' = Add64(pos, U32(4))
          /\ pc' = "kind"
          /\ err' = err
    /\ UNCHANGED <<args, flen, file_type, little_endian, file_kind, raw_file_kind,
                   offset, index, chunk, log, files, walked>>

\* let file_kind = read_fourcc(f, little_endian)?; offset = 12; index = 0;
ReadFileKind ==
    /\ pc = "kind"
    /\ \/ /\ ~CanRead(U32(4))
          /\ Fail("io")
          /\ pos' = PosAtEof
          /\ UNCHANGED <<file_kind, raw_file_kind, offset, index>>
       \/ /\ CanRead(U32(4))
          /\ \E raw \in {MV93} :
               /\ raw_file_kind' = raw
               /\ file_kind' = read_fourcc(raw, little_endian)
          /\ pos' = Add64(pos, U32(4))
          /\ offset' = U32(12)
          /\ index' = 0
          /\ pc' = "loop"
          /\ err' = err
    /\ UNCHANGED <<args, flen, file_type, little_endian, file_size, raw_file_size,
                   chunk, log, files, walked>>

\* while offset < file_size
LoopCondition(o, size) == Lt32(o, size)

\* The loop ends: println!("Finished reading file without problems!"); Ok(())
Finish ==
    /\ pc = "loop"
    /\ ~LoopCondition(offset, file_size)
    /\ pc' = "ok"
    /\ log' = <<"Finished reading file without problems!">>
    /\ UNCHANGED <<args, file, err, header, offset, index, chunk, files, walked>>

\* chunk_size & 1
And1(a) == U32(a[2] % 2)

\* let seek_size = chunk_size + (chunk_size & 1);
SeekSize(size) == Add32(size, And1(size))

\* let dump = dump_fourccs.contains(&chunk_type) || dump_indices.contains(&chunk_index);
Dump(type, i) == type \in dump_fourccs \/ i \in dump_indices

\* Faulty variant: the chunk type is not looked at.
TranslateAnyType(type) == translate_sndh

\* let translate = translate_sndh && chunk_type == sndH;
Translate(type) == translate_sndh /\ type = sndH

\* One iteration up to the computation of seek_size: the chunk's type and
\* size are read, offset moves past them, the chunk is announced.
ReadChunkHeader ==
    /\ pc = "loop"
    /\ LoopCondition(offset, file_size)
    /\ index < MaxChunks
    /\ \/ /\ ~CanRead(U32(8))
          /\ Fail("io")
          /\ pos' = PosAtEof
          /\ UNCHANGED <<offset, chunk, log, walked>>
       \/ /\ CanRead(U32(8))
          /\ pos' = Add64(pos, U32(8))
          /\ err' = err
          /\ buffer' = buffer
          /\ outcome' = outcome
          /\ \E rt \in RawTags, rs \in RawChunkSizes :
               LET type == read_fourcc(rt, little_endian)
                   size == read_u32(rs, little_endian)
                   o8 == Add32(offset, U32(8))
                   pad == SeekSize(size)
                   q == type \in quiet_fourccs
                   early == overflow_checks /\ o8.ovf
                   late == overflow_checks /\ pad.ovf
               IN /\ raw_chunk_type' = rt
                  /\ raw_chunk_size' = rs
                  /\ chunk_type' = type
                  /\ chunk_size' = size
                  /\ chunk_offset' = offset
                  /\ chunk_index' = index
                  /\ offset' = IF early THEN offset ELSE o8.val
                  /\ quiet' = IF early THEN quiet ELSE q
                  /\ dump' = IF early THEN dump ELSE Dump(type, index)
                  /\ translate' = IF early THEN translate ELSE Translate(type)
                  /\ log' = IF early \/ q THEN <<>> ELSE <<"Chunk">>
                  /\ seek_size' = IF early \/ late THEN seek_size ELSE pad.val
                  /\ pc' = IF early \/ late THEN "panic" ELSE "body"
                  /\ walked' = IF early \/ late THEN walked
                               ELSE Append(walked, [index |-> index, start |-> offset,
                                                    at |-> pos, padded |-> pad.val])
    /\ UNCHANGED <<args, flen, header, index, files>>

\* if !dump && !translate: f.seek(SeekFrom::Current(seek_size as i64))?.
\* File::seek is lseek: a position past the end of the file is accepted.
SkipBody ==
    /\ pc = "body"
    /\ ~dump /\ ~translate
    /\ log' = log \o (IF quiet THEN <<>> ELSE <<"(skipping)">>) \o <<"seek">>
    /\ pos' = Add64(pos, seek_size)
    /\ pc' = "advance"
    /\ UNCHANGED <<args, flen, err, header, offset, index, chunk, files, walked>>

\* else: buffer.resize(seek_size); f.read_exact(&mut buffer[..])?
ReadBody ==
    /\ pc = "body"
    /\ dump \/ translate
    /\ \/ /\ ~CanRead(seek_size)
          /\ Fail("io")
          /\ pos' = PosAtEof
          /\ UNCHANGED <<buffer, log>>
       \/ /\ CanRead(seek_size)
          /\ \E data \in FileBodies(seek_size[2]) : buffer' = data
          /\ pos' = Add64(pos, seek_size)
          /\ log' = Append(log, "read_exact")
          /\ pc' = IF dump THEN "dump" ELSE "translate"
          /\ err' = err
    /\ UNCHANGED <<args, flen, header, offset, index, chunk_type, chunk_size,
                   chunk_offset, chunk_index, raw_chunk_type, raw_chunk_size, quiet,
                   dump, translate, seek_size, outcome, files, walked>>

\* if dump: the file name is built (the chunk type must be UTF-8) and the
\* buffer is written to it.
DumpChunk ==
    /\ pc = "dump"
    /\ \/ /\ ~IsUtf8(chunk_type)
          /\ Fail("utf8")
          /\ UNCHANGED <<log, files>>
       \/ /\ IsUtf8(chunk_type)
          /\ \E written \in BOOLEAN :
               IF written
               THEN /\ files' = Written(DumpName(chunk_index, chunk_offset, chunk_type),
                                        buffer)
                    /\ log' = log \o (IF quiet THEN <<>> ELSE <<"(dumping to:">>)
                                  \o <<"write dump">>
                                  \o (IF quiet THEN <<>> ELSE <<" done!)">>)
                    /\ pc' = IF translate THEN "translate" ELSE "advance"
                    /\ err' = err
               ELSE /\ files' = files
                    /\ log' = log \o (IF quiet THEN <<>> ELSE <<"(dumping to:">>)
                    /\ Fail("io")
    /\ UNCHANGED <<args, file, header, offset, index, chunk, walked>>

\* Faulty variant: an ignored sound header ends the walk.
AfterIgnoringFails == "err"

\* "...; ignoring" and return Ok(()): the walk goes on with the end of the
\* iteration.
AfterIgnoring == "advance"

\* if translate: do_translate_sndh(&buffer, quiet, chunk_index, chunk_offset)?
TranslateSndh ==
    /\ pc = "translate"
    /\ \E r \in {do_translate_sndh(buffer, overflow_checks)} :
       LET name == SndhName(chunk_index, chunk_offset)
           say == log \o <<"do_translate_sndh">> \o r.stderr
       IN \/ /\ r.result = "Panic"
             /\ outcome' = r.result
             /\ log' = say
             /\ pc' = "panic"
             /\ UNCHANGED <<err, files>>
          \/ /\ r.result \in {"WrongSize", "UnsupportedBitDepth"}
             /\ outcome' = r.result
             /\ log' = say
             /\ pc' = AfterIgnoring
             /\ UNCHANGED <<err, files>>
          \/ /\ r.result = "Args"
             /\ \E written \in BOOLEAN :
                  IF written
                  THEN /\ files' = Written(name, r.args)
                       /\ outcome' = "Written"
                       /\ log' = say \o (IF quiet THEN <<>>
                                         ELSE <<"(writing translated sndH to:">>)
                                     \o <<"write sndH">>
                                     \o (IF quiet THEN <<>> ELSE <<" done!)">>)
                       /\ pc' = "advance"
                       /\ err' = err
                  ELSE /\ files' = files
                       /\ outcome' = "WriteFailed"
                       /\ log' = say \o (IF quiet THEN <<>>
                                         ELSE <<"(writing translated sndH to:">>)
                       /\ Fail("io")
    /\ UNCHANGED <<args, file, header, offset, index, chunk_type, chunk_size,
                   chunk_offset, chunk_index, raw_chunk_type, raw_chunk_size, quiet,
                   dump, translate, seek_size, buffer, walked>>

\* Faulty variant: offset moves by the declared size.
AdvanceByDeclared(size, padded) == size

\* offset += seek_size: by the padded size, not by chunk_size.
AdvanceBy(size, padded) == padded

\* Faulty variant: the increment is forgotten.
NextIndexStuck(i) == i

\* index += 1
NextIndex(i) == i + 1

\* The end of one iteration: offset += seek_size; index += 1; the
\* iteration's locals go out of scope.
Advance ==
    /\ pc = "advance"
    /\ LET o == Add32(offset, AdvanceBy(chunk_size, seek_size))
       IN IF overflow_checks /\ o.ovf
          THEN /\ pc' = "panic"
               /\ UNCHANGED <<offset, index, chunk, log>>
          ELSE /\ pc' = "loop"
               /\ offset' = o.val
               /\ index' = NextIndex(index)
               /\ log' = <<>>
               /\ NoChunk
    /\ UNCHANGED <<args, file, err, header, files, walked>>

Next ==
    \/ ReadMagic
    \/ ReadFileSize
    \/ ReadFileKind
    \/ Finish
    \/ ReadChunkHeader
    \/ SkipBody
    \/ ReadBody
    \/ DumpChunk
    \/ TranslateSndh
    \/ Advance

Spec == Init /\ [][Next]_vars

\* ------------------------------------------- the sound header alone
\* do_translate_sndh run on one body: the walk of a big-endian file of 20
\* bytes plus the body, whose only chunk is an 'sndH' handed to the
\* translator.
InitSndh ==
    /\ overflow_checks \in BOOLEAN
    /\ quiet_fourccs \in {{}, {sndH}}
    /\ dump_fourccs = {}
    /\ dump_indices = {}
    /\ translate_sndh = TRUE
    /\ buffer \in SndhBodies \cup {<<>>}
    /\ flen = Pos(20 + Len(buffer))
    /\ pos = flen
    /\ pc = "translate"
    /\ err = ""
    /\ file_type = RIFX
    /\ little_endian = FALSE
    /\ file_size = U32(20 + Len(buffer))
    /\ file_kind = MV93
    /\ raw_file_size = to_be_bytes(file_size)
    /\ raw_file_kind = MV93
    /\ offset = U32(20)
    /\ index = 0
    /\ chunk_type = sndH
    /\ chunk_size = U32(Len(buffer))
    /\ chunk_offset = U32(12)
    /\ chunk_index = 0
    /\ raw_chunk_type = sndH
    /\ raw_chunk_size = to_be_bytes(chunk_size)
    /\ quiet = (sndH \in quiet_fourccs)
    /\ dump = FALSE
    /\ translate = TRUE
    /\ seek_size = chunk_size
    /\ outcome = ""
    /\ log = (IF quiet THEN <<>> ELSE <<"Chunk">>) \o <<"read_exact">>
    /\ files = <<>>
    /\ walked = <<[index |-> 0, start |-> U32(12), at |-> Pos(12), padded |-> seek_size]>>

NextSndh == TranslateSndh \/ Advance

SpecSndh == InitSndh /\ [][NextSndh]_vars

\* ------------------------------------------------------------ claims
\* The walk is inside an iteration, past the computation of seek_size.
InChunk == pc \in {"body", "dump", "translate", "advance"}

\* How often the current iteration has done op.
Count(op) == Cardinality({i \in DOMAIN log : log[i] = op})

\* Where the current iteration did op (0: nowhere).
Place(op) == IF Count(op) = 0 THEN 0 ELSE CHOOSE i \in DOMAIN log : log[i] = op

\* 12 plus the sum of 8 + padded size over the chunks walked, as a file position.
WalkedEnd ==
    LET end[i \in 0..Len(walked)] ==
            IF i = 0 THEN Pos(12)
            ELSE Add64(Add64(end[i - 1], U32(8)), walked[i].padded)
    IN end[Len(walked)]

\* C1 as stated: on success the final offset equals the declared file size exactly.
C1_SuccessExactlyAtDeclaredSize ==
    pc = "ok" => offset = file_size

\* C1 as amended: on success the final offset is 12 plus the sum of 8 +
\* padded size over the chunks walked (in 32-bit arithmetic, and without
\* any wrap in a build that checks overflow), and it is at or past the
\* declared file size.
C1_SuccessAtOrPastDeclaredSize ==
    pc = "ok" =>
        /\ ~Lt32(offset, file_size)
        /\ offset = WalkedEnd.w
        /\ overflow_checks => WalkedEnd.top = 0

\* C1's case: success reported with the last chunk carrying the offset past
\* the declared size.
C1_Witness ==
    /\ pc = "ok"
    /\ Len(walked) > 0
    /\ Lt32(file_size, offset)

\* C2 as stated: success is never reported when the padded body of a chunk
\* extends past the end of the file, be the chunk read or skipped.
C2_NoSuccessPastEndOfFile ==
    pc = "ok" =>
        \A i \in DOMAIN walked :
            Le64(Add64(Add64(walked[i].at, U32(8)), walked[i].padded), flen)

\* The translator has run on buffer in the current iteration.
Decoded == Count("do_translate_sndh") = 1

BitDepth == Fields(buffer)[17]

SupportedDepths == {U32(8), U32(16), U32(24), U32(32)}

AssertMessages ==
    {"byte_count1 == byte_count2", "pcm_frame_count1 == pcm_frame_count2",
     "bytes_per_second == pcm_frames_per_second * bytes_per_frame",
     "bit_depth % 8 == 0", "bytes_per_sample >= (bit_depth / 8)",
     "bytes_per_frame == bytes_per_sample * channel_count"}

\* The assertion messages the current iteration has printed.
Reported == {log[i] : i \in DOMAIN log} \cap AssertMessages

SndhWritten == SndhName(chunk_index, chunk_offset) \in DOMAIN files

\* C3 as stated: a 100-byte body with an unsupported bit depth is rejected
\* as such, no descriptor is written and no consistency check is reported.
C3_NoWarningOnUnsupportedDepth ==
    Decoded /\ Len(buffer) = 100 /\ BitDepth \notin SupportedDepths =>
        /\ outcome = "UnsupportedBitDepth"
        /\ ~SndhWritten
        /\ Reported = {}

\* C3 as amended: for a 100-byte body with an unsupported bit depth no
\* descriptor is written, and the translator either rejects the chunk as
\* unsupported-bit-depth or (an overflowing multiplication in a build that
\* checks overflow) panics.  The six checks are evaluated before the bit depth is
\* examined: when the chunk is rejected every failing check has been
\* reported, so any depth that is not a multiple of 8 (5, say) comes with
\* the "bit_depth % 8 == 0" warning, and a mismatch of the byte counts with
\* its own.
C3_WarningsBeforeUnsupportedDepth ==
    Decoded /\ Len(buffer) = 100 /\ BitDepth \notin SupportedDepths =>
        LET f == Fields(buffer)
        IN /\ ~SndhWritten
           /\ outcome \in {"UnsupportedBitDepth", "Panic"}
           /\ outcome = "Panic" => overflow_checks
           /\ outcome = "UnsupportedBitDepth" =>
                /\ pc = "advance"
                /\ (BitDepth[2] % 8 # 0) <=> ("bit_depth % 8 == 0" \in Reported)
                /\ (f[1] # f[8]) <=> ("byte_count1 == byte_count2" \in Reported)
                /\ (f[9] # f[10]) <=> ("pcm_frame_count1 == pcm_frame_count2" \in Reported)

\* C3's case: a 100-byte body of bit depth 5 has been rejected.
C3_Witness ==
    /\ Decoded
    /\ Len(buffer) = 100
    /\ BitDepth = U32(5)
    /\ outcome = "UnsupportedBitDepth"
    /\ "bit_depth % 8 == 0" \in Reported

\* C4 as stated: every 100-byte body with bit depth 8, 16, 24 or 32 yields
\* the descriptor (format of the depth, field 19, field 11), whichever
\* checks fail; no check aborts the decoding.
C4_DescriptorWhateverChecksFail ==
    Decoded /\ Len(buffer) = 100 /\ BitDepth \in SupportedDepths =>
        /\ outcome \in {"Written", "WriteFailed"}
        /\ outcome = "Written" =>
             /\ SndhWritten
             /\ files[SndhName(chunk_index, chunk_offset)] =
                  << CASE BitDepth = U32(8) -> "u8"
                       [] BitDepth = U32(16) -> "s16be"
                       [] BitDepth = U32(24) -> "s24le"
                       [] BitDepth = U32(32) -> "s32le",
                     Fields(buffer)[19], Fields(buffer)[11] >>

\* The translator has ignored the current chunk.
Rejected == outcome \in {"WrongSize", "UnsupportedBitDepth"}

\* C5: a rejection by the translator leaves the walk running: no error is
\* returned, the dump asked for has been written, offset and index are
\* where the chunk's header left them, and the iteration ends like any
\* other: offset moves by the padded size, index by one, and the walk is
\* back at the loop test, where the next header is read.
C5_RejectionIsLocal ==
    /\ [](Rejected =>
            /\ pc = "advance"
            /\ err = ""
            /\ offset = Add32(chunk_offset, U32(8)).val
            /\ index = chunk_index
            /\ dump =>
                 /\ DumpName(chunk_index, chunk_offset, chunk_type) \in DOMAIN files
                 /\ files[DumpName(chunk_index, chunk_offset, chunk_type)] = buffer)
    /\ [][Rejected =>
            \/ /\ pc' = "loop"
               /\ err' = ""
               /\ offset' = Add32(offset, seek_size).val
               /\ index' = index + 1
               /\ files' = files
            \/ /\ pc' = "panic"
               /\ overflow_checks
               /\ Add32(offset, seek_size).ovf]_vars

\* C5's case: a chunk that was to be dumped has been rejected by the translator.
C5_Witness ==
    /\ Rejected
    /\ dump
    /\ chunk_index = 1

\* C6 as stated: the padded size is even, the declared size plus one when
\* that is odd, the declared size when it is even.
C6_PaddedSize ==
    InChunk =>
        /\ seek_size[2] % 2 = 0
        /\ chunk_size[2] % 2 = 1 =>
             /\ ~Add32(chunk_size, U32(1)).ovf
             /\ seek_size = Add32(chunk_size, U32(1)).val
        /\ chunk_size[2] % 2 = 0 => seek_size = chunk_size

\* C7: the chunks walked carry the indices 0, 1, 2, ... in order, and the
\* index at the loop test is the number of chunks walked to their end.
C7_IndicesContiguous ==
    /\ \A i \in DOMAIN walked : walked[i].index = i - 1
    /\ InChunk => chunk_index = Len(walked) - 1 /\ index = chunk_index
    /\ pc \in {"loop", "ok"} => index = Len(walked)

\* C7's case: a second chunk, read and decoded, after a first one that was skipped.
C7_Witness ==
    /\ pc = "advance"
    /\ Len(walked) = 2
    /\ translate
    /\ chunk_index = 1
    /\ dump_indices = {}
    /\ dump_fourccs = {}

PastMagic == pc \in {"size", "kind", "loop", "body", "dump", "translate", "advance", "ok"}

\* C8: a magic that is neither 'XFIR' nor 'RIFX' ends the walk with the
\* unsupported-format error when only those 4 bytes have been read; else
\* the byte order the magic selects is the one every later field is read in.
C8_MagicFixesEndianness ==
    /\ err = "unsupported" =>
         /\ pc = "err"
         /\ file_type \notin {XFIR, RIFX}
         /\ pos = Pos(4)
         /\ raw_file_size = NoFourCC /\ raw_file_kind = NoFourCC
         /\ walked = <<>> /\ log = <<>> /\ files = <<>>
    /\ PastMagic =>
         /\ file_type \in {XFIR, RIFX}
         /\ little_endian = (file_type = XFIR)
    /\ PastMagic /\ pc # "size" =>
         file_size = IF file_type = XFIR THEN from_le_bytes(raw_file_size)
                     ELSE from_be_bytes(raw_file_size)
    /\ PastMagic /\ pc \notin {"size", "kind"} =>
         file_kind = IF file_type = XFIR THEN Reverse(raw_file_kind) ELSE raw_file_kind
    /\ InChunk =>
         /\ chunk_type = IF file_type = XFIR THEN Reverse(raw_chunk_type)
                         ELSE raw_chunk_type
         /\ chunk_size = IF file_type = XFIR THEN from_le_bytes(raw_chunk_size)
                         ELSE from_be_bytes(raw_chunk_size)

\* C8's case: the second chunk of a little-endian file, its size read as 99.
C8_Witness ==
    /\ pc = "body"
    /\ file_type = XFIR
    /\ chunk_index = 1
    /\ raw_chunk_size = <<99, 0, 0, 0>>
    /\ chunk_size = U32(99)
    /\ chunk_type = sndH

\* C9 as stated: when an iteration starts, offset is the file's read
\* position, and the start offset of every chunk walked is the position its
\* type tag was read at.
C9_OffsetIsFilePosition ==
    /\ pc = "loop" /\ LoopCondition(offset, file_size) => pos = [top |-> 0, w |-> offset]
    /\ \A i \in DOMAIN walked : walked[i].at = [top |-> 0, w |-> walked[i].start]

\* C10: the body is read (once, and never sought over) exactly when the
\* chunk is to be dumped or decoded, and sought over (once) otherwise;
\* dumped and decoded, it is read once, written to the dump file as read and
\* then handed to the translator; quiet_fourccs has no part in it.
C10_ReadIffDumpOrDecode ==
    LET d == chunk_type \in dump_fourccs \/ chunk_index \in dump_indices
        t == translate_sndh /\ chunk_type = sndH
    IN /\ pc \in {"dump", "translate", "advance"} =>
            /\ dump = d /\ translate = t
            /\ (d \/ t) => Count("read_exact") = 1 /\ Count("seek") = 0
            /\ ~(d \/ t) => Count("read_exact") = 0 /\ Count("seek") = 1
                              /\ buffer = <<>>
       /\ pc = "dump" => d /\ Count("write dump") = 0 /\ Count("do_translate_sndh") = 0
       /\ pc = "translate" => t /\ Count("do_translate_sndh") = 0
                                /\ Count("write dump") = (IF d THEN 1 ELSE 0)
       /\ pc = "advance" =>
            /\ Count("write dump") = (IF d THEN 1 ELSE 0)
            /\ Count("do_translate_sndh") = (IF t THEN 1 ELSE 0)
            /\ d => files[DumpName(chunk_index, chunk_offset, chunk_type)] = buffer
            /\ d /\ t =>
                 /\ Place("read_exact") < Place("write dump")
                 /\ Place("write dump") < Place("do_translate_sndh")
                 /\ outcome \in {"Written", "WrongSize", "UnsupportedBitDepth"}
                 /\ Len(buffer) = 100 <=> outcome # "WrongSize"

\* C10's case: a quiet chunk both dumped and decoded.
C10_Witness ==
    /\ pc = "advance"
    /\ dump /\ translate /\ quiet
    /\ outcome = "Written"
    /\ Count("read_exact") = 1

====
